---- MODULE Spec2Model ----
(***************************************************************************)
(* Model of the `bigchaindb` command-line interface                        *)
(* (bigchaindb/commands/bigchain.py): the node bootstrap commands `init`   *)
(* and `start` run by several node instances against one storage backend, *)
(* the `load` command with its pool of worker processes, and the           *)
(* administration commands `set-shards`, `set-replicas`, `add-replicas`,   *)
(* `remove-replicas`, `drop` and `show-config`.                            *)
(***************************************************************************)
EXTENDS Integers, Sequences, FiniteSets, TLC

\* ------------------------------------------------------------------ bounds
\* Invocations of `init` or `start` in one behaviour: each is a process of its own,
\* a node instance working on the one shared backend.
MaxRuns == 2
\* Largest `--count` given to `load`.
MaxCount == 4
\* Largest `--multiprocess` given to `load`.
MaxWorkers == 3
\* Transactions the load workers may write to the backend, all together, before the
\* model stops them (the external kill that ends a loop without end).
MaxTx == 4
\* Administration commands run in one behaviour, one after the other.
MaxCmds == 2
\* Largest number given to `set-shards` and `set-replicas`.
MaxNum == 2

Node == 1 .. MaxRuns

\* ------------------------------------------------------------------ values
\* Python's None.
None == "None"
\* A key read from the configuration file, and a key made by crypto.generate_key_pair().
ConfiguredKey == "configured"
GeneratedKey == "generated"

\* Python truthiness of a configuration value: None and the empty string are false,
\* any other string is true.
Truthy(v) == v \notin {None, ""}

\* The keypairs a configuration file may hold (each key present or absent).
Keypairs == [private : {None, ConfiguredKey}, public : {None, ConfiguredKey}]

\* A run's outcome is "running", "returned" (back to the shell, exit status 0),
\* "sysexit" (sys.exit(<message>): the message on stderr, exit status 1) or
\* "traceback" (an exception nobody caught: exit status 1).

VARIABLES
    dbExists,    \* backend: the database exists
    genesis,     \* backend: number of genesis records
    pc,          \* pc[n]: the statement the n-th invocation is at
    run,         \* run[n]: the record of the n-th invocation
    config,      \* config[n]: bigchaindb.config['keypair'] in the n-th invocation's process
    overlap      \* history: some invocation began while another was in progress

VARIABLES
    args,        \* `load`: the parsed arguments [count, multiprocess] (0, 0 before the run)
    quota,       \* quota[w]: the tx_left argument worker w was started with
    tx_left,     \* tx_left[w]: worker w's local variable tx_left
    wpc,         \* wpc[w]: the statement worker w is at
    stats,       \* the aggregated stats['transactions'] counter
    backlog      \* backend: transactions written by the load workers

VARIABLES
    capable,     \* backend: it implements replica sets
    shards,      \* backend: the number of shards
    replicas,    \* backend: the number of replicas
    members,     \* backend: the members of the replica set
    databases,   \* backend: the names of the databases that exist
    adm,         \* adm[k]: the record of the k-th administration command
    bconfig      \* bconfig[k]: bigchaindb.config in the k-th command's process

bootVars == <<dbExists, genesis, pc, run, config, overlap>>
loadVars == <<args, quota, tx_left, wpc, stats, backlog>>
adminVars == <<capable, shards, replicas, members, databases, adm, bconfig>>

vars == <<bootVars, loadVars, adminVars>>

Cmd == 1 .. MaxCmds

\* The database names a configuration may hold.
DbNames == {"bigchain", "other"}

\* bigchaindb.config as far as the administration commands read it.
DefaultConfig ==
    [CONFIGURED |-> TRUE,
     database |-> [name |-> "bigchain"],
     keypair |-> [private |-> None, public |-> None]]

\* No command run yet. calls are the backend calls made, stdout and stderr the
\* lines printed.
NoCmd == [cmd |-> None, arg |-> <<>>, calls |-> <<>>, stdout |-> <<>>, stderr |-> <<>>,
          exc |-> None, outcome |-> None]

NoKeypair == [private |-> None, public |-> None]

\* kp is the keypair the configuration gave the process when the run began.
NoRun == [cmd |-> None, allow_temp_keypair |-> FALSE, start_rethinkdb |-> FALSE,
          kp |-> NoKeypair,
          steps |-> <<>>, initdb |-> None, exc |-> None, outcome |-> None]

\* Everything but the kind of backend.
InitState ==
    /\ dbExists = FALSE
    /\ genesis = 0
    /\ pc = [n \in Node |-> "idle"]
    /\ run = [n \in Node |-> NoRun]
    /\ config = [n \in Node |-> NoKeypair]
    /\ overlap = FALSE
    /\ args = [count |-> 0, multiprocess |-> 0]
    /\ quota = <<>>
    /\ tx_left = <<>>
    /\ wpc = <<>>
    /\ stats = 0
    /\ backlog = 0
    /\ shards = 1
    /\ replicas = 1
    /\ members = {}
    /\ databases = DbNames
    /\ adm = [k \in Cmd |-> NoCmd]
    /\ bconfig = [k \in Cmd |-> DefaultConfig]

\* The backend of `init`, `start` and `load` is one without replica sets (RethinkDB).
Init == InitState /\ capable = FALSE

\* The administration commands meet either kind of backend.
AdminInit == InitState /\ capable \in BOOLEAN

\* ------------------------------------------------- the backend and the libraries
\* bigchaindb.Bigchain(): the constructor needs both keys of the keypair and raises
\* KeypairNotFoundException without them.
KeypairExists(kp) == Truthy(kp.private) /\ Truthy(kp.public)

\* What utils.start_rethinkdb() may do: return the started process or raise StartupError.
StartRethinkdbOutcomes == {"started", "StartupError"}

\* What schema.init_database() may do: create the database (only when there is none),
\* raise DatabaseAlreadyExists (only when there is one), or fail for another reason.
InitDatabaseOutcomes(exists) ==
    IF exists THEN {"DatabaseAlreadyExists", "OperationError"}
              ELSE {"fresh", "OperationError"}

\* What Bigchain.create_genesis_block() may do: write a genesis record or fail.
CreateGenesisOutcomes == {"created", "OperationError"}

\* ------------------------------------------------------------ exception handlers
\* run_init without its except clause: DatabaseAlreadyExists leaves it uncaught.
run_init_except_uncaught(exc) == [pc |-> "done", outcome |-> "traceback"]

\* run_init with DatabaseAlreadyExists swallowed around init_database() alone, so
\* that _run_init goes on to create_genesis_block().
run_init_except_goes_on(exc) ==
    IF exc = "DatabaseAlreadyExists"
    THEN [pc |-> "create_genesis_block", outcome |-> "running"]
    ELSE [pc |-> "done", outcome |-> "traceback"]

\* run_init's try/except around _run_init(): DatabaseAlreadyExists is reported and the
\* command returns; any other exception leaves the function uncaught.
run_init_except(exc) ==
    IF exc = "DatabaseAlreadyExists"
    THEN [pc |-> "done", outcome |-> "returned"]
    ELSE [pc |-> "done", outcome |-> "traceback"]

\* run_start with DatabaseAlreadyExists swallowed around init_database() alone.
run_start_except_goes_on(exc) ==
    CASE exc = "DatabaseAlreadyExists" ->
            [pc |-> "create_genesis_block", outcome |-> "running"]
      [] exc = "KeypairNotFoundException" -> [pc |-> "done", outcome |-> "sysexit"]
      [] OTHER -> [pc |-> "done", outcome |-> "traceback"]

\* run_start passing over KeypairNotFoundException as it does DatabaseAlreadyExists.
run_start_except_keypair_passed(exc) ==
    CASE exc \in {"DatabaseAlreadyExists", "KeypairNotFoundException"} ->
            [pc |-> "processes_start", outcome |-> "running"]
      [] OTHER -> [pc |-> "done", outcome |-> "traceback"]

\* run_start passing over every exception of _run_init() but the missing keypair.
run_start_except_all_passed(exc) ==
    CASE exc = "KeypairNotFoundException" -> [pc |-> "done", outcome |-> "sysexit"]
      [] OTHER -> [pc |-> "processes_start", outcome |-> "running"]

\* run_start's try/except around _run_init(): DatabaseAlreadyExists is passed over and
\* the run goes on to processes.start(); KeypairNotFoundException ends in
\* sys.exit(<message>); any other exception leaves the function uncaught.
run_start_except(exc) ==
    CASE exc = "DatabaseAlreadyExists" -> [pc |-> "processes_start", outcome |-> "running"]
      [] exc = "KeypairNotFoundException" -> [pc |-> "done", outcome |-> "sysexit"]
      [] OTHER -> [pc |-> "done", outcome |-> "traceback"]

\* run_start logging StartupError and going on.
start_rethinkdb_except_goes_on(exc) ==
    IF exc = "StartupError"
    THEN [pc |-> "init_database", outcome |-> "running"]
    ELSE [pc |-> "done", outcome |-> "traceback"]

\* run_start's try/except around utils.start_rethinkdb(): StartupError ends in
\* sys.exit(<message>).
start_rethinkdb_except(exc) ==
    IF exc = "StartupError"
    THEN [pc |-> "done", outcome |-> "sysexit"]
    ELSE [pc |-> "done", outcome |-> "traceback"]

\* run_init going on to processes.start() as run_start does.
after_run_init_hands_off(cmd) == [pc |-> "processes_start", outcome |-> "running"]

\* Where a run goes when _run_init() returns normally: run_init returns, run_start
\* goes on to processes.start().
after_run_init(cmd) ==
    IF cmd = "init"
    THEN [pc |-> "done", outcome |-> "returned"]
    ELSE [pc |-> "processes_start", outcome |-> "running"]

\* run_start generating a keypair when either key is missing (`and` for `or`).
temp_keypair_either_missing(allow, kp) ==
    IF allow /\ ~(Truthy(kp.private) /\ Truthy(kp.public))
    THEN [private |-> GeneratedKey, public |-> GeneratedKey]
    ELSE kp

\* The keypair of the process after run_start's --dev-allow-temp-keypair block.
temp_keypair(allow, kp) ==
    IF allow /\ ~(Truthy(kp.private) \/ Truthy(kp.public))
    THEN [private |-> GeneratedKey, public |-> GeneratedKey]
    ELSE kp

\* ------------------------------------------------------------------- bookkeeping
InProgress(n) == pc[n] \notin {"idle", "done"}

\* Node n's run moves to h.pc with outcome h.outcome, its record being r.
Goto(n, r, h) ==
    /\ pc' = [pc EXCEPT ![n] = h.pc]
    /\ run' = [run EXCEPT ![n] = [r EXCEPT !.outcome = h.outcome]]

\* Exception exc is raised in node n's run (record r) and handled as h says.
Raise(n, r, exc, h) == Goto(n, [r EXCEPT !.exc = exc], h)

\* The invocations made so far are 1 .. nInvoked.
nInvoked == Cardinality({n \in Node : pc[n] # "idle"})

\* The n-th invocation begins: a new process.
Invoke(n) ==
    /\ n = nInvoked + 1
    /\ overlap' = (overlap \/ \E m \in Node : InProgress(m))

\* --------------------------------------------------------------------- actions
\* `bigchaindb init`: run_init is entered with the configuration file's keypair kp.
run_init(n, kp) ==
    /\ Invoke(n)
    /\ config' = [config EXCEPT ![n] = kp]
    /\ pc' = [pc EXCEPT ![n] = "init_database"]
    /\ run' = [run EXCEPT ![n] = [NoRun EXCEPT !.cmd = "init", !.outcome = "running",
                                               !.kp = kp]]
    /\ UNCHANGED <<dbExists, genesis, loadVars, adminVars>>

\* `bigchaindb start`: run_start is entered with the configuration file's keypair kp
\* and runs its --dev-allow-temp-keypair block.
run_start(n, kp, allow, rethink) ==
    /\ Invoke(n)
    /\ config' = [config EXCEPT ![n] = temp_keypair(allow, kp)]
    /\ pc' = [pc EXCEPT ![n] = IF rethink THEN "start_rethinkdb" ELSE "init_database"]
    /\ run' = [run EXCEPT ![n] =
                 [NoRun EXCEPT !.cmd = "start", !.outcome = "running", !.kp = kp,
                               !.allow_temp_keypair = allow, !.start_rethinkdb = rethink,
                               !.steps = IF temp_keypair(allow, kp) # kp
                                         THEN <<"generate_key_pair">> ELSE <<>>]]
    /\ UNCHANGED <<dbExists, genesis, loadVars, adminVars>>

\* run_start's --dev-start-rethinkdb block.
start_rethinkdb(n) ==
    /\ pc[n] = "start_rethinkdb"
    /\ LET r == [run[n] EXCEPT !.steps = Append(@, "start_rethinkdb")] IN
       \E o \in StartRethinkdbOutcomes :
          IF o = "started"
          THEN Goto(n, r, [pc |-> "init_database", outcome |-> "running"])
          ELSE Raise(n, r, o, start_rethinkdb_except(o))
    /\ UNCHANGED <<dbExists, genesis, config, overlap, loadVars, adminVars>>

\* _run_init up to and including schema.init_database(): the node object is built
\* from the keypair, then the database is initialized.
init_database(n) ==
    /\ pc[n] = "init_database"
    /\ LET handler(exc) == IF run[n].cmd = "init" THEN run_init_except(exc)
                                                  ELSE run_start_except(exc)
           r0 == [run[n] EXCEPT !.steps = Append(@, "Bigchain")]
           r1 == [r0 EXCEPT !.steps = Append(@, "init_database")]
       IN IF ~KeypairExists(config[n])
          THEN /\ Raise(n, r0, "KeypairNotFoundException",
                        handler("KeypairNotFoundException"))
               /\ UNCHANGED dbExists
          ELSE \E o \in InitDatabaseOutcomes(dbExists) :
                  IF o = "fresh"
                  THEN /\ dbExists' = TRUE
                       /\ Goto(n, [r1 EXCEPT !.initdb = "fresh"],
                               [pc |-> "create_genesis_block", outcome |-> "running"])
                          ELSE /\ Raise(n, [r1 EXCEPT !.initdb =
                                      IF o = "DatabaseAlreadyExists" THEN "exists"
                                                                     ELSE "error"],
                                o, handler(o))
                       /\ UNCHANGED dbExists
    /\ UNCHANGED <<genesis, config, overlap, loadVars, adminVars>>

\* The rest of _run_init: b.create_genesis_block(), then back in the caller.
create_genesis_block(n) ==
    /\ pc[n] = "create_genesis_block"
    /\ LET handler(exc) == IF run[n].cmd = "init" THEN run_init_except(exc)
                                                  ELSE run_start_except(exc)
           r == [run[n] EXCEPT !.steps = Append(@, "create_genesis_block")]
       IN \E o \in CreateGenesisOutcomes :
             IF o = "created"
             THEN /\ genesis' = genesis + 1
                  /\ Goto(n, r, after_run_init(run[n].cmd))
                ELSE /\ Raise(n, r, o, handler(o))
                  /\ UNCHANGED genesis
    /\ UNCHANGED <<dbExists, config, overlap, loadVars, adminVars>>

\* The end of run_start: processes.start(), the handoff to the node's services.
processes_start(n) ==
    /\ pc[n] = "processes_start"
    /\ Goto(n, [run[n] EXCEPT !.steps = Append(@, "processes.start")],
            [pc |-> "done", outcome |-> "returned"])
    /\ UNCHANGED <<dbExists, genesis, config, overlap, loadVars, adminVars>>

Next ==
    \E n \in Node :
       \/ \E kp \in Keypairs : run_init(n, kp)
       \/ \E kp \in Keypairs, allow \in BOOLEAN, rethink \in BOOLEAN :
             run_start(n, kp, allow, rethink)
       \/ start_rethinkdb(n)
       \/ init_database(n)
       \/ create_genesis_block(n)
       \/ processes_start(n)

Spec == Init /\ [][Next]_vars

\* ------------------------------------------------------- properties of bootstrap
\* The n-th invocation has made the call named s.
Called(n, s) == \E i \in DOMAIN run[n].steps : run[n].steps[i] = s

\* How often the n-th invocation has made the call named s.
Calls(n, s) == Cardinality({i \in DOMAIN run[n].steps : run[n].steps[i] = s})

Invoked == {n \in Node : pc[n] # "idle"}

\* No run is in progress.
Quiescent == \A n \in Node : ~InProgress(n)

\* Some call failed for a reason other than the database existing already: a missing
\* keypair, a service that did not start, a backend error.
Faulted == \E n \in Node : run[n].exc \notin {None, "DatabaseAlreadyExists"}

Failed(n) == run[n].outcome \in {"sysexit", "traceback"}

\* C1: on a fresh backend, after n >= 1 `init` invocations run one after the other
\* (each with its keypair, the backend answering every call), the backend holds exactly
\* one genesis record and every invocation has returned without an error, the later
\* ones by catching DatabaseAlreadyExists.
C1_InitIdempotent ==
    ( /\ ~overlap
      /\ Quiescent
      /\ Invoked # {}
      /\ \A n \in Invoked : run[n].cmd = "init"
      /\ ~Faulted )
    => /\ genesis = 1
       /\ \A n \in Invoked : run[n].outcome = "returned"
       /\ \A n \in Invoked \ {1} : run[n].exc = "DatabaseAlreadyExists"

C1_Witness ==
    /\ ~overlap /\ Quiescent /\ ~Faulted
    /\ Invoked = {1, 2}
    /\ run[1].cmd = "init" /\ run[2].cmd = "init"
    /\ run[1].initdb = "fresh" /\ run[2].initdb = "exists"
    /\ run[2].outcome = "returned"
    /\ genesis = 1

\* C2: in every run, create_genesis_block is called if and only if init_database of that
\* run made a fresh database (the call being the run's very next step); after
\* DatabaseAlreadyExists no genesis creation is attempted and a `start` run goes on to
\* processes.start().
C2_GenesisIffFreshInit ==
    \A n \in Node :
       /\ Called(n, "create_genesis_block")
             <=> (run[n].initdb = "fresh" /\ pc[n] # "create_genesis_block")
       /\ run[n].initdb = "exists" =>
             /\ ~Called(n, "create_genesis_block")
             /\ run[n].cmd = "start" =>
                   \/ pc[n] = "processes_start"
                   \/ (pc[n] = "done" /\ Called(n, "processes.start"))

C2_Witness ==
    \E n, m \in Node :
       /\ run[n].cmd = "start" /\ run[n].initdb = "exists"
       /\ Called(n, "processes.start") /\ ~Called(n, "create_genesis_block")
       /\ run[m].initdb = "fresh" /\ Called(m, "create_genesis_block")

\* C3: over any sequence of `init`/`start` runs, one after the other, whenever a
\* `start` run has called processes.start() the backend holds a genesis record.
C3_HandoffImpliesGenesis ==
    ~overlap => \A n \in Node : Called(n, "processes.start") => genesis >= 1

\* C4: whatever the interleaving of the runs (each with its keypair, the backend
\* answering every call), at most one run makes the fresh database and only that run
\* creates a genesis record; every run that met DatabaseAlreadyExists creates none and
\* does not fail; and once all runs are over the backend holds exactly one genesis
\* record.
C4_FirstWriterWins ==
    ~Faulted =>
       /\ Cardinality({n \in Node : run[n].initdb = "fresh"}) <= 1
       /\ genesis <= 1
       /\ \A n \in Node :
             run[n].initdb = "exists" =>
                ~Called(n, "create_genesis_block") /\ ~Failed(n)
       /\ (Quiescent /\ Invoked # {}) =>
             /\ genesis = 1
             /\ \E n \in Node :
                   run[n].initdb = "fresh" /\ Called(n, "create_genesis_block")

C4_Witness ==
    /\ overlap /\ Quiescent /\ ~Faulted
    /\ Invoked = {1, 2}
    /\ run[1].initdb = "exists" /\ run[2].initdb = "fresh"
    /\ genesis = 1

\* C8: a `start` run without --dev-allow-temp-keypair whose node cannot be built for
\* want of a keypair ends in sys.exit(<message>), having called neither
\* init_database nor create_genesis_block nor processes.start().
C8_MissingKeypairIsFatal ==
    \A n \in Node :
       ( /\ run[n].cmd = "start"
         /\ ~run[n].allow_temp_keypair
         /\ Called(n, "Bigchain")
         /\ ~KeypairExists(config[n]) )
       => /\ pc[n] = "done"
          /\ run[n].outcome = "sysexit"
          /\ run[n].exc = "KeypairNotFoundException"
          /\ ~Called(n, "init_database")
          /\ ~Called(n, "create_genesis_block")
          /\ ~Called(n, "processes.start")

C8_Witness ==
    \E n \in Node :
       /\ run[n].cmd = "start" /\ ~run[n].allow_temp_keypair
       /\ Called(n, "Bigchain") /\ ~KeypairExists(config[n])
       /\ run[n].outcome = "sysexit"

\* C9: a `start` run with --dev-start-rethinkdb in which the service does not start
\* (StartupError) ends at once in sys.exit(<message>): the start was tried once and no
\* later call (Bigchain, init_database, create_genesis_block, processes.start) is made.
C9_StartupErrorIsFatal ==
    \A n \in Node :
       (run[n].start_rethinkdb /\ run[n].exc = "StartupError")
       => /\ pc[n] = "done"
          /\ run[n].outcome = "sysexit"
          /\ Calls(n, "start_rethinkdb") = 1
          /\ run[n].steps[Len(run[n].steps)] = "start_rethinkdb"
          /\ \A s \in {"Bigchain", "init_database", "create_genesis_block",
                       "processes.start"} : ~Called(n, s)

C9_Witness ==
    \E n \in Node :
       /\ run[n].start_rethinkdb /\ run[n].exc = "StartupError"
       /\ run[n].outcome = "sysexit"

\* C10: in a `start` run, a failed call is followed by a further step only when the
\* failure is DatabaseAlreadyExists: after any other failure of init_database, or a
\* failure of create_genesis_block, the run is over with an error, the failed call is
\* its last and was made once, and processes.start() is not called.
C10_OnlyAlreadyExistsRecoverable ==
    \A n \in Node :
       (run[n].cmd = "start" /\ run[n].exc # None) =>
          IF run[n].exc = "DatabaseAlreadyExists"
          THEN pc[n] = "processes_start" \/ Called(n, "processes.start")
          ELSE /\ pc[n] = "done"
               /\ Failed(n)
               /\ ~Called(n, "processes.start")
               /\ \A s \in {"init_database", "create_genesis_block"} : Calls(n, s) <= 1
               /\ run[n].exc = "OperationError" =>
                     run[n].steps[Len(run[n].steps)]
                        \in {"init_database", "create_genesis_block"}

C10_Witness ==
    \E n, m \in Node :
       /\ run[n].cmd = "start" /\ run[n].exc = "OperationError"
       /\ run[n].steps[Len(run[n].steps)] = "create_genesis_block"
       /\ run[n].outcome = "traceback"
       /\ run[m].cmd = "start" /\ run[m].exc = "DatabaseAlreadyExists"
       /\ Called(m, "processes.start")

\* The phase of the bootstrap sequence a call belongs to, in the sequence's order:
\* keypair resolution (a keypair generated in memory, or the node built from the
\* keypair, which is where a missing keypair is met), dependent-service startup,
\* database initialization, genesis creation, handoff.
Phase(s) ==
    CASE s \in {"generate_key_pair", "Bigchain"} -> 1
      [] s = "start_rethinkdb" -> 2
      [] s = "init_database" -> 3
      [] s = "create_genesis_block" -> 4
      [] s = "processes.start" -> 5

\* The place of a call in the order the code makes the calls in.
Rank(s) ==
    CASE s = "generate_key_pair" -> 1
      [] s = "start_rethinkdb" -> 2
      [] s = "Bigchain" -> 3
      [] s = "init_database" -> 4
      [] s = "create_genesis_block" -> 5
      [] s = "processes.start" -> 6

BootstrapCalls == {"generate_key_pair", "start_rethinkdb", "Bigchain", "init_database",
                   "create_genesis_block", "processes.start"}

C16_TempKeypairOnlyWhenNoKey ==
    \A n \in Invoked :
       LET r == run[n]
           none == r.kp.private = None /\ r.kp.public = None
           gen == r.cmd = "start" /\ r.allow_temp_keypair /\ none
       IN /\ Called(n, "generate_key_pair") <=> gen
          /\ gen => /\ config[n].private = GeneratedKey
                    /\ config[n].public = GeneratedKey
          /\ ~gen => config[n] = r.kp

C16_Witness ==
    \E n, m \in Node :
       /\ run[n].cmd = "start" /\ run[n].allow_temp_keypair
       /\ run[n].kp = NoKeypair /\ config[n].private = GeneratedKey
       /\ run[m].cmd = "start" /\ run[m].allow_temp_keypair
       /\ run[m].kp.private = None /\ run[m].kp.public = ConfiguredKey
       /\ config[m] = run[m].kp

\* ------------------------------------------------------------------ `load`
\* Python's int(a / b) for integers a and b, b > 0: true division, then truncation
\* toward zero.
IntOfQuotient(a, b) == IF a >= 0 THEN a \div b ELSE -((-a) \div b)

\* A tx_left value: Python's None is <<>>, the integer k is <<k>>.
NoneInt == <<>>
SomeInt(k) == <<k>>
IntOf(v) == v[1]

\* The tx_left that run_load hands to every worker.
load_tx_left(count, multiprocess) ==
    IF count > 0 THEN SomeInt(IntOfQuotient(count, multiprocess)) ELSE NoneInt

\* What Bigchain.write_transaction() may do: store the transaction or fail.
WriteTransactionOutcomes == {"written", "OperationError"}

Worker == DOMAIN wpc

\* `bigchaindb load -c count -m multiprocess`: run_load computes tx_left and starts
\* a ProcessGroup of `multiprocess` workers, each running _run_load(tx_left, stats).
run_load(count, multiprocess) ==
    /\ args.multiprocess = 0
    /\ args' = [count |-> count, multiprocess |-> multiprocess]
    /\ quota' = [w \in 1 .. multiprocess |-> load_tx_left(count, multiprocess)]
    /\ tx_left' = [w \in 1 .. multiprocess |-> load_tx_left(count, multiprocess)]
    /\ wpc' = [w \in 1 .. multiprocess |-> "write_transaction"]
    /\ UNCHANGED <<stats, backlog, bootVars, adminVars>>

\* _run_load swallowing a failed write and going on to count it.
write_transaction_counts_failure(w) ==
    /\ wpc[w] = "write_transaction"
    /\ backlog < MaxTx
    /\ \E o \in WriteTransactionOutcomes :
          /\ backlog' = IF o = "written" THEN backlog + 1 ELSE backlog
          /\ wpc' = [wpc EXCEPT ![w] = "stats"]
    /\ UNCHANGED <<args, quota, tx_left, stats, bootVars, adminVars>>

\* _run_load, the head of the loop: a transaction is created, signed and written.
write_transaction(w) ==
    /\ wpc[w] = "write_transaction"
    /\ backlog < MaxTx
    /\ \E o \in WriteTransactionOutcomes :
          IF o = "written"
          THEN /\ backlog' = backlog + 1
               /\ wpc' = [wpc EXCEPT ![w] = "stats"]
          ELSE /\ wpc' = [wpc EXCEPT ![w] = "raised"]
               /\ UNCHANGED backlog
    /\ UNCHANGED <<args, quota, tx_left, stats, bootVars, adminVars>>

\* _run_load: stats['transactions'] += 1.
increment_stats(w) ==
    /\ wpc[w] = "stats"
    /\ stats' = stats + 1
    /\ wpc' = [wpc EXCEPT ![w] = "tx_left"]
    /\ UNCHANGED <<args, quota, tx_left, backlog, bootVars, adminVars>>

\* _run_load leaving the loop when tx_left is None (`if not tx_left: break`).
decrement_tx_left_breaks_on_none(w) ==
    /\ wpc[w] = "tx_left"
    /\ IF tx_left[w] # NoneInt
       THEN /\ tx_left' = [tx_left EXCEPT ![w] = SomeInt(IntOf(@) - 1)]
            /\ wpc' = [wpc EXCEPT ![w] = IF IntOf(tx_left[w]) - 1 = 0
                                         THEN "returned" ELSE "write_transaction"]
       ELSE /\ wpc' = [wpc EXCEPT ![w] = "returned"]
            /\ UNCHANGED tx_left
    /\ UNCHANGED <<args, quota, stats, backlog, bootVars, adminVars>>

\* _run_load, the end of the loop: tx_left is decremented unless it is None, and the
\* loop is left when it is zero.
decrement_tx_left(w) ==
    /\ wpc[w] = "tx_left"
    /\ IF tx_left[w] # NoneInt
       THEN /\ tx_left' = [tx_left EXCEPT ![w] = SomeInt(IntOf(@) - 1)]
            /\ wpc' = [wpc EXCEPT ![w] = IF IntOf(tx_left[w]) - 1 = 0
                                         THEN "returned" ELSE "write_transaction"]
       ELSE /\ wpc' = [wpc EXCEPT ![w] = "write_transaction"]
            /\ UNCHANGED tx_left
    /\ UNCHANGED <<args, quota, stats, backlog, bootVars, adminVars>>

LoadNext ==
    \/ \E count \in -1 .. MaxCount, multiprocess \in 1 .. MaxWorkers :
          run_load(count, multiprocess)
    \/ \E w \in Worker : write_transaction(w)
    \/ \E w \in Worker : increment_stats(w)
    \/ \E w \in Worker : decrement_tx_left(w)

LoadSpec == Init /\ [][LoadNext]_vars

\* ------------------------------------------------------------ properties of load
RECURSIVE SumQuota(_)
\* The sum of the quotas of workers 1 .. k.
SumQuota(k) == IF k = 0 THEN 0 ELSE IntOf(quota[k]) + SumQuota(k - 1)

\* The load run has a count to reach.
Bounded == args.multiprocess > 0 /\ args.count > 0

\* Every worker has left its loop at the break.
Completed == Worker # {} /\ \A w \in Worker : wpc[w] = "returned"

\* C5: in a load run with count C > 0 and W >= 1 workers, the workers' quotas sum to
\* C and none is negative.
C5_QuotasSumToCount ==
    Bounded =>
       /\ SumQuota(args.multiprocess) = args.count
       /\ \A w \in Worker : IntOf(quota[w]) >= 0

\* C6: in a load run with a count (C < W included), a worker decrements its quota
\* once per transaction and stops when it is zero: its quota is never below zero.
C6_WorkerStopsAtZero ==
    Bounded => \A w \in Worker : IntOf(tx_left[w]) >= 0

\* C7: the aggregated transactions counter never decreases, and once a load run
\* with count C has completed it is exactly C.
C7_StatsMonotoneAndExact ==
    [][ /\ stats' >= stats
        /\ (Completed /\ Bounded)' => stats' = args'.count ]_vars

\* The load run has no count: every worker was started with tx_left = None.
Unbounded == Worker # {} /\ \A w \in Worker : quota[w] = NoneInt

\* C12 (as claimed): in a load run without a count, every worker is still looping in
\* every reachable state.
C12_UnboundedWorkersLoop ==
    Unbounded =>
       \A w \in Worker : wpc[w] \in {"write_transaction", "stats", "tx_left"}

\* C12 (amended): in a load run without a count, no worker ever leaves its loop at
\* the break and its tx_left stays None: a worker is still looping unless a write
\* raised in it.
C12_UnboundedWorkersNeverBreak ==
    Unbounded =>
       \A w \in Worker :
          /\ tx_left[w] = NoneInt
          /\ wpc[w] \in {"write_transaction", "stats", "tx_left", "raised"}

C12_Witness ==
    /\ Unbounded
    /\ args.count = 0
    /\ Cardinality(Worker) >= 2
    /\ backlog = MaxTx
    /\ stats = MaxTx
    /\ \A w \in Worker : wpc[w] = "write_transaction"

\* C19: the transactions counter never exceeds the number of transactions written
\* to the backend; it changes only by one, in a worker whose write has returned; and
\* a worker whose write raises stops for good with the counter, the backend and every
\* tx_left as they were, the other workers being where they were.
C19_CountedOnlyAfterWrite ==
    /\ [](stats <= backlog)
    /\ [][ /\ stats' # stats =>
                /\ stats' = stats + 1
                /\ \E w \in Worker : wpc[w] = "stats" /\ wpc'[w] = "tx_left"
           /\ \A w \in Worker :
                 /\ (wpc[w] # "raised" /\ wpc'[w] = "raised") =>
                       /\ wpc[w] = "write_transaction"
                       /\ stats' = stats
                       /\ backlog' = backlog
                       /\ tx_left' = tx_left
                       /\ \A v \in Worker \ {w} : wpc'[v] = wpc[v]
                 /\ wpc[w] = "raised" => wpc'[w] = "raised" ]_vars

C19_Witness ==
    /\ Cardinality(Worker) >= 2
    /\ wpc[1] = "raised"
    /\ tx_left[1] = quota[1]
    /\ wpc[2] = "returned"
    /\ stats = IntOf(quota[2])
    /\ stats >= 2

\* ------------------------------------------------- the administration commands
\* The hosts `add-replicas` and `remove-replicas` may be given (each host:port).
Hosts == {"localhost:27017", "db2:27017"}

\* What the operator may answer to run_drop's question.
Responses == {"y", "n", "Y"}

\* The private keys a configuration may hold.
PrivateKeys == {None, "", "private-A", "private-B"}

\* What admin.set_shards() and admin.set_replicas() may do: reconfigure the tables or
\* raise OperationError.
SetOutcomes == {"ok", "OperationError"}

\* What admin.add_replicas() and admin.remove_replicas() may do: a backend without
\* replica sets raises NotImplementedError, another changes the members or raises
\* OperationError.
ReplicasOutcomes(replicaSets) ==
    IF replicaSets THEN {"ok", "OperationError"} ELSE {"NotImplementedError"}

\* What schema.drop_database() may do: drop the database or raise
\* DatabaseDoesNotExist.
DropDatabaseOutcomes(dbname, dbs) ==
    IF dbname \in dbs THEN {"ok"} ELSE {"DatabaseDoesNotExist"}

\* The exceptions each command's except clause names.
run_set_shards_caught_none == {}
run_set_shards_caught == {"OperationError"}
run_set_replicas_caught == {"OperationError"}
run_add_replicas_caught_operation_error_only == {"OperationError"}
run_add_replicas_caught == {"OperationError", "NotImplementedError"}
run_remove_replicas_caught == {"OperationError", "NotImplementedError"}

\* The commands run so far are 1 .. nCmds.
nCmds == Cardinality({k \in Cmd : adm[k].cmd # None})

\* A backend call, as recorded in a command's calls.
Call(op, arg) == [op |-> op, arg |-> arg]

\* try: <call> except <caught> as e: print(e, file=sys.stderr). The record of a
\* command (r, its call made) in which the call raised exc.
Except(r, caught, exc) ==
    IF exc \in caught
    THEN [r EXCEPT !.exc = exc, !.stderr = Append(@, exc), !.outcome = "returned"]
    ELSE [r EXCEPT !.exc = exc, !.outcome = "traceback"]

\* `bigchaindb set-shards n`.
run_set_shards(k, n) ==
    /\ k = nCmds + 1
    /\ LET r == [NoCmd EXCEPT !.cmd = "set-shards", !.arg = n,
                              !.calls = <<Call("connect", 0), Call("set_shards", n)>>]
       IN \E o \in SetOutcomes :
             IF o = "ok"
             THEN /\ shards' = n
                  /\ adm' = [adm EXCEPT ![k] = [r EXCEPT !.outcome = "returned"]]
             ELSE /\ adm' = [adm EXCEPT ![k] = Except(r, run_set_shards_caught, o)]
                  /\ UNCHANGED shards
    /\ UNCHANGED <<capable, replicas, members, databases, bconfig, bootVars, loadVars>>

\* `bigchaindb set-replicas n`.
run_set_replicas(k, n) ==
    /\ k = nCmds + 1
    /\ LET r == [NoCmd EXCEPT !.cmd = "set-replicas", !.arg = n,
                              !.calls = <<Call("connect", 0), Call("set_replicas", n)>>]
       IN \E o \in SetOutcomes :
             IF o = "ok"
             THEN /\ replicas' = n
                  /\ adm' = [adm EXCEPT ![k] = [r EXCEPT !.outcome = "returned"]]
             ELSE /\ adm' = [adm EXCEPT ![k] = Except(r, run_set_replicas_caught, o)]
                  /\ UNCHANGED replicas
    /\ UNCHANGED <<capable, shards, members, databases, bconfig, bootVars, loadVars>>

\* `bigchaindb add-replicas host:port ...`.
run_add_replicas(k, hosts) ==
    /\ k = nCmds + 1
    /\ LET r == [NoCmd EXCEPT !.cmd = "add-replicas", !.arg = hosts,
                              !.calls = <<Call("connect", 0), Call("add_replicas", 0)>>]
       IN \E o \in ReplicasOutcomes(capable) :
             IF o = "ok"
             THEN /\ members' = members \cup hosts
                  /\ adm' = [adm EXCEPT ![k] =
                               [r EXCEPT !.stdout = Append(@, "Added"),
                                         !.outcome = "returned"]]
             ELSE /\ adm' = [adm EXCEPT ![k] = Except(r, run_add_replicas_caught, o)]
                  /\ UNCHANGED members
    /\ UNCHANGED <<capable, shards, replicas, databases, bconfig, bootVars, loadVars>>

\* `bigchaindb remove-replicas host:port ...`.
run_remove_replicas(k, hosts) ==
    /\ k = nCmds + 1
    /\ LET r == [NoCmd EXCEPT !.cmd = "remove-replicas", !.arg = hosts,
                              !.calls = <<Call("connect", 0),
                                          Call("remove_replicas", 0)>>]
       IN \E o \in ReplicasOutcomes(capable) :
             IF o = "ok"
             THEN /\ members' = members \ hosts
                  /\ adm' = [adm EXCEPT ![k] =
                               [r EXCEPT !.stdout = Append(@, "Removed"),
                                         !.outcome = "returned"]]
             ELSE /\ adm' = [adm EXCEPT ![k] = Except(r, run_remove_replicas_caught, o)]
                  /\ UNCHANGED members
    /\ UNCHANGED <<capable, shards, replicas, databases, bconfig, bootVars, loadVars>>

\* `if not args.yes: response = input(...); if response != 'y': return`: whether
\* run_drop goes on to drop.
drop_confirmed_unless_n(yes, response) == yes \/ response # "n"
drop_confirmed(yes, response) == yes \/ response = "y"

\* `bigchaindb drop [-y]` with the configured database name dbname; response is what
\* the operator types when asked.
run_drop(k, yes, response, dbname) ==
    /\ k = nCmds + 1
    /\ yes => response = None
    /\ ~yes => response \in Responses
    /\ bconfig' = [bconfig EXCEPT ![k] = [DefaultConfig EXCEPT !.database.name = dbname]]
    /\ LET r == [NoCmd EXCEPT !.cmd = "drop",
                              !.arg = [yes |-> yes, response |-> response]]
       IN IF ~drop_confirmed(yes, response)
          THEN /\ adm' = [adm EXCEPT ![k] = [r EXCEPT !.outcome = "returned"]]
               /\ UNCHANGED databases
          ELSE LET c == [r EXCEPT !.calls = <<Call("connect", 0),
                                              Call("drop_database", dbname)>>]
               IN \E o \in DropDatabaseOutcomes(dbname, databases) :
                     IF o = "ok"
                     THEN /\ databases' = databases \ {dbname}
                          /\ adm' = [adm EXCEPT ![k] = [c EXCEPT !.outcome = "returned"]]
                     ELSE /\ adm' = [adm EXCEPT ![k] = Except(c, {}, o)]
                          /\ UNCHANGED databases
    /\ UNCHANGED <<capable, shards, replicas, members, bootVars, loadVars>>

\* 'x' * 45
Mask == "xxxxxxxxxxxxxxxxxxxxxxxxxxxxxxxxxxxxxxxxxxxxx"

\* The configurations `show-config` may find.
Configs ==
    {[DefaultConfig EXCEPT !.keypair = [private |-> p, public |-> q]] :
        p \in PrivateKeys, q \in {None, "public-A"}}

\* json.dumps of a string or of None.
JsonValue(v) == IF v = None THEN <<"null">> ELSE <<"string", v>>

\* json.dumps(config, sort_keys=True) of a configuration without its CONFIGURED
\* key: the members in the order of their keys.
JsonDumps(database, private, public) ==
    << <<"database", << <<"name", JsonValue(database)>> >> >>,
       <<"keypair",  << <<"private", JsonValue(private)>>,
                        <<"public", JsonValue(public)>> >> >> >>

\* What run_show_config prints for bigchaindb.config = cfg and what bigchaindb.config
\* is afterwards (the command works on a deep copy).
show_config_unredacted(cfg) ==
    [printed |-> JsonDumps(cfg.database.name, cfg.keypair.private, cfg.keypair.public),
     config  |-> cfg]
show_config(cfg) ==
    [printed |-> JsonDumps(cfg.database.name,
                           IF Truthy(cfg.keypair.private) THEN Mask ELSE None,
                           cfg.keypair.public),
     config  |-> cfg]

\* `bigchaindb show-config` with bigchaindb.config = cfg.
run_show_config(k, cfg) ==
    /\ k = nCmds + 1
    /\ bconfig' = [bconfig EXCEPT ![k] = show_config(cfg).config]
    /\ adm' = [adm EXCEPT ![k] =
                 [NoCmd EXCEPT !.cmd = "show-config", !.arg = cfg,
                               !.stdout = <<show_config(cfg).printed>>,
                               !.outcome = "returned"]]
    /\ UNCHANGED <<capable, shards, replicas, members, databases, bootVars, loadVars>>

AdminNext ==
    \/ \E k \in Cmd, n \in -1 .. MaxNum : run_set_shards(k, n)
    \/ \E k \in Cmd, n \in -1 .. MaxNum : run_set_replicas(k, n)
    \/ \E k \in Cmd, hosts \in SUBSET Hosts \ {{}} : run_add_replicas(k, hosts)
    \/ \E k \in Cmd, hosts \in SUBSET Hosts \ {{}} : run_remove_replicas(k, hosts)
    \/ \E k \in Cmd, yes \in BOOLEAN, response \in Responses \cup {None}, dbname \in DbNames :
          run_drop(k, yes, response, dbname)
    \/ \E k \in Cmd, cfg \in Configs : run_show_config(k, cfg)

AdminSpec == AdminInit /\ [][AdminNext]_vars

\* ------------------------------------------- claims about the administration
\* The positions of the calls of op in the calls of command k.
CallsOf(k, ops) == {i \in DOMAIN adm[k].calls : adm[k].calls[i].op \in ops}

Mutators == {"set_shards", "set_replicas"}

\* C13: set-shards n and set-replicas n reject n <= 0 before any backend
\* interaction: set_shards / set_replicas is never called with n <= 0, and the
\* rejection is reported without a fatal exit.
C13_NonPositiveRejected ==
    \A k \in Cmd :
        adm[k].cmd \in {"set-shards", "set-replicas"} /\ adm[k].arg <= 0 =>
            /\ adm[k].calls = <<>>
            /\ adm[k].stderr # <<>>
            /\ adm[k].outcome = "returned"

\* C14: add-replicas or remove-replicas against a backend without replica sets gets
\* NotImplementedError from the backend: the membership is unchanged, the error is
\* reported, no success message is printed and the command returns.
C14_UnsupportedIsReported ==
    [][\A k \in Cmd :
         /\ adm[k].cmd = None
         /\ adm'[k].cmd \in {"add-replicas", "remove-replicas"}
         /\ ~capable
         => /\ adm'[k].exc = "NotImplementedError"
            /\ members' = members
            /\ adm'[k].stderr = <<"NotImplementedError">>
            /\ adm'[k].stdout = <<>>
            /\ adm'[k].outcome = "returned"]_vars

C14_Witness ==
    /\ ~capable
    /\ \E i, j \in Cmd :
          /\ adm[i].cmd = "add-replicas" /\ adm[i].exc = "NotImplementedError"
          /\ adm[j].cmd = "remove-replicas" /\ adm[j].exc = "NotImplementedError"

\* C15: when the backend rejects set-shards or set-replicas with OperationError, the
\* failure is reported and the command returns normally, having called the backend
\* mutator exactly once.
C15_OperationErrorIsReported ==
    \A k \in Cmd :
        adm[k].cmd \in {"set-shards", "set-replicas"} /\ adm[k].exc = "OperationError" =>
            /\ adm[k].stderr = <<"OperationError">>
            /\ adm[k].outcome = "returned"
            /\ Cardinality(CallsOf(k, Mutators)) = 1

C15_Witness ==
    \E i, j \in Cmd :
        /\ adm[i].cmd = "set-shards" /\ adm[i].exc = "OperationError"
        /\ adm[j].cmd = "set-replicas" /\ adm[j].exc = "OperationError"

\* C17: drop drops the database only after confirmation: without --yes and with a
\* response other than 'y' the command returns without connecting and the database
\* is unchanged; with --yes or the response 'y', drop_database is called exactly
\* once on the configured database name.
C17_DropOnlyWhenConfirmed ==
    [][\A k \in Cmd :
         adm[k].cmd = None /\ adm'[k].cmd = "drop" =>
            IF ~adm'[k].arg.yes /\ adm'[k].arg.response # "y"
            THEN /\ Len(adm'[k].calls) = 0
                 /\ databases' = databases
                 /\ adm'[k].outcome = "returned"
            ELSE /\ Len(adm'[k].calls) = 2
                 /\ adm'[k].calls[1].op = "connect"
                 /\ adm'[k].calls[2] = Call("drop_database", bconfig'[k].database.name)]_vars

C17_Witness ==
    \E i, j \in Cmd :
        /\ adm[i].cmd = "drop" /\ ~adm[i].arg.yes /\ adm[i].arg.response = "Y"
        /\ Len(adm[i].calls) = 0
        /\ adm[j].cmd = "drop" /\ ~adm[j].arg.yes /\ adm[j].arg.response = "y"
        /\ bconfig[j].database.name \notin databases

\* The member "private" of the member "keypair" of a printed configuration.
PrintedPrivate(doc) == doc[2][2][1][2]

\* Two configurations that differ at most in the value of a non-empty private key.
DifferOnlyInPrivateKey(c, d) ==
    /\ Truthy(c.keypair.private)
    /\ Truthy(d.keypair.private)
    /\ [c EXCEPT !.keypair.private = Mask] = [d EXCEPT !.keypair.private = Mask]

\* C18: show-config prints a redacted configuration: two configurations that differ
\* only in the value of a non-empty private key print the same, the private key is
\* printed as the fixed mask or as null, and bigchaindb.config is unchanged.
C18_ShowConfigRedacts ==
    /\ \A i \in Cmd :
          adm[i].cmd = "show-config" =>
             /\ Len(adm[i].stdout) = 1
             /\ PrintedPrivate(adm[i].stdout[1]) \in {JsonValue(Mask), JsonValue(None)}
             /\ bconfig[i] = adm[i].arg
    /\ \A i, j \in Cmd :
          /\ adm[i].cmd = "show-config"
          /\ adm[j].cmd = "show-config"
          => (DifferOnlyInPrivateKey(adm[i].arg, adm[j].arg) =>
                 adm[i].stdout = adm[j].stdout)

C18_Witness ==
    \E i, j \in Cmd :
        /\ adm[i].cmd = "show-config"
        /\ adm[j].cmd = "show-config"
        /\ adm[i].arg.keypair.private # adm[j].arg.keypair.private
        /\ DifferOnlyInPrivateKey(adm[i].arg, adm[j].arg)
        /\ PrintedPrivate(adm[i].stdout[1]) = JsonValue(Mask)
====
